---- MODULE Spec2Model ----
(***************************************************************************)
(* Model of scripts/type_extractor/type_extractor/parse_includes.py of     *)
(* retdec: the declaration-extraction pipeline get_types_info_from_text    *)
(* and the routines it calls.                                              *)
(*                                                                         *)
(* Texts that the code inspects character by character (declarations,      *)
(* type texts, parameter texts, typedef fragments) are sequences of        *)
(* one-character strings.  The header text that is only handed from one    *)
(* text filter to the next is kept symbolically, as the sequence of the    *)
(* filters applied to it.                                                  *)
(***************************************************************************)
EXTENDS Naturals, Integers, Sequences, FiniteSets, TLC

VARIABLES pc, output, content, unions_content, calls,
          file_structs, structs, struct_warnings,
          file_unions, unions, union_warnings,
          file_enums, enums,
          file_typedefs, to_parse, typedefs,
          decls, parsed_functions, func_warnings, param_calls, functions

vars == <<pc, output, content, unions_content, calls,
          file_structs, structs, struct_warnings,
          file_unions, unions, union_warnings,
          file_enums, enums,
          file_typedefs, to_parse, typedefs,
          decls, parsed_functions, func_warnings, param_calls, functions>>

(***************************************************************************)
(* Bounds of the model.                                                    *)
(***************************************************************************)
\* the longest list get_all_structs / get_all_unions / get_all_enums return
MaxDefs == 2
\* the longest list get_declarations returns
MaxDecls == 2
\* the longest list get_typedefs returns
MaxTypedefs == 2
\* wrong_func_parameters: more than this many '(' rejects a declaration
MaxParens == 10

(***************************************************************************)
(* Python values and string operations.                                    *)
(***************************************************************************)
\* Python's None: no text, since a text holds one-character strings only
None == <<"None">>

Upper == {"A","B","C","D","E","F","G","H","I","J","K","L","M",
          "N","O","P","Q","R","S","T","U","V","W","X","Y","Z"}
Lower == {"a","b","c","d","e","f","g","h","i","j","k","l","m",
          "n","o","p","q","r","s","t","u","v","w","x","y","z"}
Digit == {"0","1","2","3","4","5","6","7","8","9"}

\* the regular-expression classes \w and \s
IsWord(c) == c \in Upper \cup Lower \cup Digit \cup {"_"}
IsSpace(c) == c \in {" ", "\n", "\t", "\r"}

Min(S) == CHOOSE m \in S : \A n \in S : m <= n
Max(S) == CHOOSE m \in S : \A n \in S : m >= n

\* s.count(c)
Count(s, c) == Cardinality({i \in 1..Len(s) : s[i] = c})

\* s.endswith(suf)
EndsWith(s, suf) ==
    /\ Len(suf) <= Len(s)
    /\ SubSeq(s, Len(s) - Len(suf) + 1, Len(s)) = suf

\* s.rfind(c): the 0-based index of the last c, or -1
RFind(s, c) ==
    LET at == {i \in 1..Len(s) : s[i] = c}
    IN  IF at = {} THEN -1 ELSE Max(at) - 1

\* s[:k], a negative k counting from the end
SliceTo(s, k) ==
    IF k >= 0
    THEN SubSeq(s, 1, IF k < Len(s) THEN k ELSE Len(s))
    ELSE SubSeq(s, 1, IF Len(s) + k > 0 THEN Len(s) + k ELSE 0)

\* s.strip()
Strip(s) ==
    LET ink == {i \in 1..Len(s) : ~IsSpace(s[i])}
    IN  IF ink = {} THEN <<>> ELSE SubSeq(s, Min(ink), Max(ink))

\* the text occurs in s at 1-based position i
OccursAt(s, w, i) ==
    /\ i >= 1
    /\ i + Len(w) - 1 <= Len(s)
    /\ SubSeq(s, i, i + Len(w) - 1) = w

\* the regular-expression assertion \b between s[p] and s[p+1]
WordBoundary(s, p) ==
    LET before == p >= 1 /\ p <= Len(s) /\ IsWord(s[p])
        after == p + 1 >= 1 /\ p + 1 <= Len(s) /\ IsWord(s[p + 1])
    IN  before # after

\* the sequence s without the elements in drop
RECURSIVE SelectChars(_, _)
SelectChars(s, drop) ==
    IF s = <<>> THEN <<>>
    ELSE IF Head(s) \in drop THEN SelectChars(Tail(s), drop)
    ELSE <<Head(s)>> \o SelectChars(Tail(s), drop)

\* all sequences over S of length at most n
SeqsUpTo(S, n) == UNION {[1..k -> S] : k \in 0..n}

(***************************************************************************)
(* The collaborators outside parse_includes.py, modelled from their        *)
(* contracts: the parameter splitter, the parameter parser, the            *)
(* declaration parser and FuncInfo.                                        *)
(***************************************************************************)
\* the trailing run of word characters of s
TrailingWord(s) ==
    LET stops == {i \in 1..Len(s) : ~IsWord(s[i])}
    IN  IF stops = {} THEN s ELSE SubSeq(s, Max(stops) + 1, Len(s))

RECURSIVE SplitTop(_, _, _, _)
SplitTop(s, i, depth, cur) ==
    IF i > Len(s) THEN <<cur>>
    ELSE IF s[i] = "," /\ depth = 0
         THEN <<cur>> \o SplitTop(s, i + 1, 0, <<>>)
         ELSE SplitTop(s, i + 1,
                       IF s[i] \in {"(", "["} THEN depth + 1
                       ELSE IF s[i] \in {")", "]"} THEN depth - 1
                       ELSE depth,
                       Append(cur, s[i]))

\* params_info.split_params: the top-level comma-separated fragments, none for
\* an empty text
split_params(params) ==
    IF Strip(params) = <<>> THEN <<>> ELSE SplitTop(params, 1, 0, <<>>)

\* params_info.Param
Param(name, type_text) == [name |-> name, type_text |-> type_text]

\* one fragment parsed as "<type> <name>"
ParseParam(fragment) ==
    LET f == Strip(fragment)
        name == TrailingWord(f)
    IN  Param(name, Strip(SubSeq(f, 1, Len(f) - Len(name))))

\* params_info.parse_func_parameters: one Param per non-empty fragment
parse_func_parameters(params) ==
    LET parts == split_params(params)
        kept == SelectSeq(parts, LAMBDA f : Strip(f) # <<>>)
    IN  [i \in 1..Len(kept) |-> ParseParam(kept[i])]

\* func_info.parse_func_declaration: "<ret> <name>(<params>);", the name None
\* when no identifier precedes the first '('
parse_func_declaration(decl) ==
    LET opens == {i \in 1..Len(decl) : decl[i] = "("}
        closes == {i \in 1..Len(decl) : decl[i] = ")"}
        first == IF opens = {} THEN 0 ELSE Min(opens)
        last == IF closes = {} THEN Len(decl) + 1 ELSE Max(closes)
        head == Strip(SubSeq(decl, 1, first - 1))
        name == TrailingWord(head)
    IN  IF opens = {} \/ name = <<>>
        THEN [name |-> None, ret |-> None, params |-> None, call_conv |-> None]
        ELSE [name |-> name,
              ret |-> Strip(SubSeq(head, 1, Len(head) - Len(name))),
              params |-> SubSeq(decl, first + 1, last - 1),
              call_conv |-> <<>>]

\* func_info.FuncInfo
FuncInfo(decl, name, header, ret_type, params, varargs, call_conv) ==
    [decl |-> decl, name |-> name, header |-> header, ret_type |-> ret_type,
     params |-> params, varargs |-> varargs, call_conv |-> call_conv]

\* FuncInfo.delete_underscores_in_param_names
delete_underscores_in_param_names(finfo) ==
    [finfo EXCEPT !.params =
        [i \in 1..Len(finfo.params) |->
            Param(SelectChars(finfo.params[i].name, {"_"}),
                  finfo.params[i].type_text)]]

\* the file argument of get_types_info_from_text
file == "header.h"

(***************************************************************************)
(* parse_all_functions                                                     *)
(***************************************************************************)
Dots == <<".", ".", ".">>

\* wrong_func_parameters without the comparison of the two counts
wrong_func_parameters_count_only(params) == Count(params, "(") > MaxParens

\* wrong_func_parameters
wrong_func_parameters(params) ==
    LET c == Count(params, "(")
    IN  (c # Count(params, ")")) \/ c > MaxParens

\* params[:params.rfind(',')]
StripVarargs(params) == SliceTo(params, RFind(params, ","))

\* the synthetic parameter appended in every output mode
WithVarargParam_any_output(params_list, varargs, out) ==
    IF varargs
    THEN Append(params_list, Param(<<"v","a","r","a","r","g">>, <<".",".",".">>))
    ELSE params_list

\* if varargs and output != 'json': params_list.append(Param('vararg', '...'))
WithVarargParam(params_list, varargs, out) ==
    IF varargs /\ out # "json"
    THEN Append(params_list, Param(<<"v","a","r","a","r","g">>, Dots))
    ELSE params_list

\* functions[name] = finfo also for a name already stored
StoreFunction_last_wins(acc, name, finfo) ==
    IF name \in DOMAIN acc.functions
    THEN [acc EXCEPT !.warnings =
            Append(@, [name |-> name, dup |-> finfo, first |-> acc.functions[name]]),
          !.functions = (name :> finfo) @@ @]
    ELSE [acc EXCEPT !.functions = (name :> finfo) @@ @]

\* if name in functions: logging.warning(...) else: functions[name] = finfo
StoreFunction(acc, name, finfo) ==
    IF name \in DOMAIN acc.functions
    THEN [acc EXCEPT !.warnings =
            Append(@, [name |-> name, dup |-> finfo, first |-> acc.functions[name]])]
    ELSE [acc EXCEPT !.functions = (name :> finfo) @@ @]

\* the body of the loop over decls
FunctionsStep(acc, raw, out) ==
    LET decl == Strip(raw)
        p == parse_func_declaration(decl)
    IN  IF wrong_func_parameters(decl) THEN acc
        ELSE IF p.name = None THEN acc
        ELSE LET varargs == EndsWith(p.params, Dots)
                 params == IF varargs THEN StripVarargs(p.params) ELSE p.params
                 params_list == WithVarargParam(parse_func_parameters(params), varargs, out)
                 finfo == delete_underscores_in_param_names(
                              FuncInfo(decl, p.name, file, p.ret, params_list,
                                       varargs, p.call_conv))
             IN  StoreFunction([acc EXCEPT !.param_calls = Append(@, params)],
                               p.name, finfo)

RECURSIVE FunctionsLoop(_, _, _, _)
FunctionsLoop(ds, i, out, acc) ==
    IF i > Len(ds) THEN acc
    ELSE FunctionsLoop(ds, i + 1, out, FunctionsStep(acc, ds[i], out))

\* parse_all_functions, with the warnings it logs and the texts it hands to
\* parse_func_parameters
parse_all_functions(ds, out) ==
    FunctionsLoop(ds, 1, out,
                  [functions |-> <<>>, warnings |-> <<>>, param_calls |-> <<>>])

(***************************************************************************)
(* remove_unwanted_functions                                               *)
(***************************************************************************)
LPCTSTR == <<"L","P","C","T","S","T","R">>
PCTSTR == <<"P","C","T","S","T","R">>
LPTSTR == <<"L","P","T","S","T","R">>
PTSTR == <<"P","T","S","T","R">>
TBYTE == <<"T","B","Y","T","E">>
PTBYTE == <<"P","T","B","Y","T","E">>
TCHAR == <<"T","C","H","A","R">>

\* the names joined in t_types_re
TTypes == {LPCTSTR, PCTSTR, LPTSTR, PTSTR, TBYTE, PTBYTE, TCHAR}

\* the search without the two \b
is_t_type_substring(type) ==
    \E i \in 1..Len(type) : \E t \in TTypes : OccursAt(type, t, i)

\* re.search(r'\b(LPCTSTR|...|TCHAR)\b', type) is not None
is_t_type(type) ==
    \E i \in 1..Len(type) : \E t \in TTypes :
        /\ WordBoundary(type, i - 1)
        /\ OccursAt(type, t, i)
        /\ WordBoundary(type, i + Len(t) - 1)

The == <<"t","h","e">>

\* the pattern without its trailing .*: [A-Z].*\bthe\b
SentenceMatch_no_tail(decl) ==
    /\ Len(decl) >= 1
    /\ decl[1] \in Upper
    /\ \A i \in 2..Len(decl) : decl[i] # "\n"
    /\ WordBoundary(decl, Len(decl) - Len(<<"t","h","e">>))
    /\ OccursAt(decl, <<"t","h","e">>, Len(decl) - Len(<<"t","h","e">>) + 1)

\* re.fullmatch(r'[A-Z].*\bthe\b.*', decl): '.' matches no line break
SentenceMatch(decl) ==
    /\ Len(decl) >= 1
    /\ decl[1] \in Upper
    /\ \A i \in 2..Len(decl) : decl[i] # "\n"
    /\ \E i \in 2..Len(decl) :
        /\ WordBoundary(decl, i - 1)
        /\ OccursAt(decl, The, i)
        /\ WordBoundary(decl, i + Len(The) - 1)

is_wanted(func_info) ==
    IF is_t_type(func_info.ret_type) THEN FALSE
    ELSE IF \E i \in 1..Len(func_info.params) : is_t_type(func_info.params[i].type_text)
         THEN FALSE
         ELSE ~SentenceMatch(func_info.decl)

remove_unwanted_functions(fs) ==
    LET wanted == {f \in DOMAIN fs : is_wanted(fs[f])}
    IN  [f \in wanted |-> fs[f]]

(***************************************************************************)
(* parse_all_structs and parse_all_unions                                  *)
(***************************************************************************)
\* "not x" for a name: None and the empty text are false
Falsy(x) == x = None \/ x = <<>>

\* parse_structs_unions.parse_struct / parse_union: the names and members of
\* a raw block, with the file it came from
parse_struct(s, f) ==
    [name_text |-> s.name_text, type_name_text |-> s.type_name_text,
     members_list |-> s.members_list, header_text |-> f]

parse_union(u, f) ==
    [name_text |-> u.name_text, type_name_text |-> u.type_name_text,
     members_list |-> u.members_list, header_text |-> f]

\* the typedef alias preferred to the tag name
StructKey_alias_first(struct_info) ==
    IF Falsy(struct_info.type_name_text)
    THEN struct_info.name_text
    ELSE struct_info.type_name_text

\* sname = struct_info.name_text; if not sname: sname = struct_info.type_name_text
StructKey(struct_info) ==
    IF Falsy(struct_info.name_text)
    THEN struct_info.type_name_text
    ELSE struct_info.name_text

\* structs[sname] = struct_info also for a name already stored
StoreStruct_last_wins(acc, sname, struct_info) ==
    IF Falsy(sname) THEN acc
    ELSE IF sname \in DOMAIN acc.defs
         THEN [acc EXCEPT !.warnings =
                 Append(@, [name |-> sname, dup |-> struct_info,
                            first |-> acc.defs[sname]]),
               !.defs = (sname :> struct_info) @@ @]
         ELSE [acc EXCEPT !.defs = (sname :> struct_info) @@ @]

\* if sname: if sname in structs: warning else: structs[sname] = struct_info
StoreStruct(acc, sname, struct_info) ==
    IF Falsy(sname) THEN acc
    ELSE IF sname \in DOMAIN acc.defs
         THEN [acc EXCEPT !.warnings =
                 Append(@, [name |-> sname, dup |-> struct_info,
                            first |-> acc.defs[sname]])]
         ELSE [acc EXCEPT !.defs = (sname :> struct_info) @@ @]

RECURSIVE StructsLoop(_, _, _)
StructsLoop(ss, i, acc) ==
    IF i > Len(ss) THEN acc
    ELSE LET struct_info == parse_struct(ss[i], file)
         IN  StructsLoop(ss, i + 1,
                         StoreStruct(acc, StructKey(struct_info), struct_info))

parse_all_structs(ss) == StructsLoop(ss, 1, [defs |-> <<>>, warnings |-> <<>>])

\* uname = union_info.name_text; if not uname: uname = union_info.type_name_text
UnionKey(union_info) ==
    IF Falsy(union_info.name_text)
    THEN union_info.type_name_text
    ELSE union_info.name_text

\* if uname: if uname in unions: warning else: unions[uname] = union_info
StoreUnion(acc, uname, union_info) ==
    IF Falsy(uname) THEN acc
    ELSE IF uname \in DOMAIN acc.defs
         THEN [acc EXCEPT !.warnings =
                 Append(@, [name |-> uname, dup |-> union_info,
                            first |-> acc.defs[uname]])]
         ELSE [acc EXCEPT !.defs = (uname :> union_info) @@ @]

RECURSIVE UnionsLoop(_, _, _)
UnionsLoop(us, i, acc) ==
    IF i > Len(us) THEN acc
    ELSE LET union_info == parse_union(us[i], file)
         IN  UnionsLoop(us, i + 1,
                        StoreUnion(acc, UnionKey(union_info), union_info))

parse_all_unions(us) == UnionsLoop(us, 1, [defs |-> <<>>, warnings |-> <<>>])

(***************************************************************************)
(* parse_all_enums                                                         *)
(***************************************************************************)
\* parse_enums.parse_enum
parse_enum(e, f) == [enum |-> e, header_text |-> f]

parse_all_enums(es) == [i \in 1..Len(es) |-> parse_enum(es[i], file)]

(***************************************************************************)
(* parse_typedefs                                                          *)
(***************************************************************************)
\* the lookahead (?=\s+(?:\*|\w+|\(\*)) after the first k characters of s
BaseLookahead(s, k) ==
    \E j \in 1..Len(s) :
        /\ k + j + 1 <= Len(s)
        /\ \A i \in (k + 1)..(k + j) : IsSpace(s[i])
        /\ \/ s[k + j + 1] = "*"
           \/ IsWord(s[k + j + 1])
           \/ /\ s[k + j + 1] = "("
              /\ k + j + 2 <= Len(s)
              /\ s[k + j + 2] = "*"

\* the length of the longest prefix of s in [\w\s]
WordSpaceRun(s) ==
    LET stops == {i \in 1..Len(s) : ~(IsWord(s[i]) \/ IsSpace(s[i]))}
    IN  IF stops = {} THEN Len(s) ELSE Min(stops) - 1

\* the greedy group ([\w\s]+)? gives characters back one at a time until the
\* lookahead holds; without the group the match has group 1 = None
RECURSIVE BaseBacktrack(_, _)
BaseBacktrack(s, k) ==
    IF k = 0
    THEN IF BaseLookahead(s, 0) THEN [matched |-> TRUE, group |-> None]
         ELSE [matched |-> FALSE, group |-> None]
    ELSE IF BaseLookahead(s, k) THEN [matched |-> TRUE, group |-> SubSeq(s, 1, k)]
         ELSE BaseBacktrack(s, k - 1)

\* the group made lazy, ([\w\s]+?)?: the shortest prefix the lookahead holds after
TypeBase_shortest(first) ==
    LET ks == {k \in 1..WordSpaceRun(first) : BaseLookahead(first, k)}
    IN  IF ks # {} THEN SubSeq(first, 1, Min(ks))
        ELSE IF BaseLookahead(first, 0) THEN None ELSE <<>>

\* t_type = re.search(r'^([\w\s]+)?(?=\s+(?:\*|\w+|\(\*))', first)
\* t_type = t_type[1] if t_type else ''
TypeBase(first) ==
    LET m == BaseBacktrack(first, WordSpaceRun(first))
    IN  IF m.matched THEN m.group ELSE <<>>

\* the text an f-string gives for a value
Format(v) == IF v = None THEN <<"N","o","n","e">> ELSE v

\* what one typedef adds to to_parse
TypedefFragments(t_def) ==
    LET t_defs == split_params(t_def)
    IN  IF Len(t_defs) = 0 THEN <<>>
        ELSE IF Len(t_defs) > 1
             THEN <<t_defs[1]>> \o
                  [i \in 1..(Len(t_defs) - 1) |->
                      Format(TypeBase(t_defs[1])) \o <<" ">> \o t_defs[i + 1]]
             ELSE <<t_defs[1]>>

RECURSIVE ToParse(_, _)
ToParse(tds, i) ==
    IF i > Len(tds) THEN <<>>
    ELSE TypedefFragments(tds[i]) \o ToParse(tds, i + 1)

\* the first index from i on that holds no white space
SkipSpaces(s, i) ==
    LET rest == {j \in i..Len(s) : ~IsSpace(s[j])}
    IN  IF rest = {} THEN Len(s) + 1 ELSE Min(rest)

\* the first index from i on that holds no word character
SkipWord(s, i) ==
    LET rest == {j \in i..Len(s) : ~IsWord(s[j])}
    IN  IF rest = {} THEN Len(s) + 1 ELSE Min(rest)

\* the index of the ')' that ends a match of \((\s*\*\s*\w+)\)(;?)$ begun at
\* the '(' at p, or 0
BracketMatch(s, p) ==
    LET star == SkipSpaces(s, p + 1)
        word == SkipSpaces(s, star + 1)
        close == SkipWord(s, word)
        semi == IF close + 1 <= Len(s) /\ s[close + 1] = ";" THEN close + 1 ELSE close
    IN  IF /\ s[p] = "("
           /\ star <= Len(s) /\ s[star] = "*"
           /\ close > word
           /\ close <= Len(s) /\ s[close] = ")"
           /\ \/ semi = Len(s)
              \/ semi + 1 = Len(s) /\ s[Len(s)] = "\n"
        THEN close ELSE 0

\* remove_brackets_around_pointer
remove_brackets_around_pointer(ptr) ==
    LET at == {p \in 1..Len(ptr) : BracketMatch(ptr, p) # 0}
    IN  IF at = {} THEN ptr
        ELSE LET p == Min(at)
                 close == BracketMatch(ptr, p)
             IN  SubSeq(ptr, 1, p - 1) \o SubSeq(ptr, p + 1, close - 1)
                 \o SubSeq(ptr, close + 1, Len(ptr))

\* the second loop of parse_typedefs
RECURSIVE ParseFragments(_, _)
ParseFragments(frags, i) ==
    IF i > Len(frags) THEN <<>>
    ELSE LET t_def == IF EndsWith(frags[i], <<")">>)
                      THEN remove_brackets_around_pointer(frags[i])
                      ELSE frags[i]
         IN  parse_func_parameters(t_def) \o ParseFragments(frags, i + 1)

parse_typedefs(tds) == ParseFragments(ToParse(tds, 1), 1)

(***************************************************************************)
(* The header texts: what the extractors outside parse_includes.py find.   *)
(***************************************************************************)
w_int == <<"i","n","t">>
w_long_int == <<"l","o","n","g"," ","i","n","t">>
w_Foo == <<"F","o","o">>
w_Bar == <<"B","a","r">>
w_value == <<"v","a","l","u","e">>
p_int_a == <<"i","n","t"," ","a">>
p_int_b == <<"i","n","t"," ","b">>
p_int__a_ == <<"i","n","t"," ","_","a","_">>
w_MYTCHAR == <<"M","Y","T","C","H","A","R">>
w_TCHAR_T == <<"T","C","H","A","R","_","T">>
w_const == <<"c","o","n","s","t">>
w_Sets_the == <<"S","e","t","s"," ","t","h","e">>
w_Sets_nl_the == <<"S","e","t","s","\n","t","h","e">>
w_sets_the == <<"s","e","t","s"," ","t","h","e">>
w_Sets_other == <<"S","e","t","s"," ","o","t","h","e","r">>
w_s == <<"s">>

Sp == <<" ">>
Comma == <<",", " ">>

\* the text of the declaration "<ret> <name>(<params>);"
DeclText(ret, name, params) ==
    ret \o Sp \o name \o <<"(">> \o params \o <<")", ";">>

\* n nested pairs of parentheses around x
RECURSIVE Nest(_, _)
Nest(n, x) == IF n = 0 THEN x ELSE <<"(">> \o Nest(n - 1, x) \o <<")">>

\* func_info.get_declarations: the candidate declarations of a header
Declarations ==
    {   \* plain, variadic, variadic without a preceding comma, '...' not last
        DeclText(w_int, w_Foo, p_int_a),
        DeclText(w_int, w_Foo, p_int_a \o Comma \o Dots),
        DeclText(w_int, w_Foo, Dots),
        DeclText(w_int, w_Foo, p_int_a \o Comma \o Dots \o Sp),
        DeclText(w_int, w_Foo, p_int__a_),
        DeclText(w_int, w_Bar, p_int_b),
        \* a T type as the return type or as a parameter type
        DeclText(TCHAR, w_Foo, p_int_a),
        DeclText(LPTSTR, w_Foo, p_int_a),
        DeclText(PTBYTE, w_Foo, p_int_a),
        DeclText(w_int, w_Foo, LPCTSTR \o Sp \o w_s),
        DeclText(w_int, w_Foo, p_int_a \o Comma \o PCTSTR \o Sp \o w_s),
        DeclText(w_int, w_Foo, PTSTR \o Sp \o w_s \o Comma \o Dots),
        DeclText(w_int, w_Foo, w_const \o Sp \o TBYTE \o <<" ", "*">> \o w_s),
        \* a T type name inside a longer identifier
        DeclText(w_int, w_Bar, w_MYTCHAR \o Sp \o w_s),
        DeclText(w_TCHAR_T, w_Foo, p_int_a),
        \* sentences
        DeclText(w_Sets_the, w_value, p_int_a),
        <<"\n", " ">> \o DeclText(w_Sets_the, w_value, p_int_a) \o <<" ">>,
        DeclText(w_Sets_nl_the, w_value, p_int_a),
        DeclText(w_sets_the, w_value, p_int_a),
        DeclText(w_Sets_other, w_value, p_int_a),
        \* parentheses: unbalanced, 10, 11
        DeclText(w_int, w_Foo, p_int_a \o <<"(">>),
        DeclText(w_int, w_Foo, w_int \o Sp \o Nest(MaxParens - 1, w_s)),
        DeclText(w_int, w_Foo, w_int \o Sp \o Nest(MaxParens, w_s)),
        \* no name
        <<"(">> \o p_int_a \o <<")", ";">>
    }

\* the raw blocks get_all_structs and get_all_unions return
Blocks ==
    [name_text : {None, <<>>, <<"S">>, <<"T">>},
     type_name_text : {<<>>, <<"T">>},
     members_list : {"int x;", "char y;"}]

\* the raw blocks get_all_enums returns
EnumBlocks == {"enum E {A, B}", "enum {C}"}

\* get_typedefs: what the pattern typedef\s*([\w\s\*\[\]\(\),.+-/]+?)\s*; captures
\* typedef int A;
td_single == <<"i","n","t"," ","A">>
\* typedef int A, *B;
td_pointer == <<"i","n","t"," ","A",","," ","*","B">>
\* typedef long int C, *D;
td_two_words == <<"l","o","n","g"," ","i","n","t"," ","C",","," ","*","D">>
\* typedef int* A, B;
td_star_on_type == <<"i","n","t","*"," ","A",","," ","B">>
\* typedef int (*H), (*G);
td_brackets == <<"i","n","t"," ","(","*","H",")",","," ","(","*","G",")">>
\* typedef  ;
td_blank == <<" ">>
\* typedef void (*f)(int x, int y);
td_callback == <<"v","o","i","d"," ","(","*","f",")","(","i","n","t"," ","x",","," ","i","n","t"," ","y",")">>
\* typedef int A, *B, **C;
td_three == <<"i","n","t"," ","A",","," ","*","B",","," ","*","*","C">>

Typedefs ==
    {td_single, td_pointer, td_two_words, td_star_on_type, td_brackets, td_blank,
     td_callback, td_three}

\* the outputs main passes: only 'json' is told apart
Outputs == {"json", "txt"}

(***************************************************************************)
(* The header text, as the filters applied to it.                          *)
(***************************************************************************)
RawText == <<"raw">>
\* header_text_filters.use_filters
use_filters(text) == Append(text, "use_filters")
\* the text get_all_structs returns
WithoutStructs(text) == Append(text, "structs_removed")
\* the text get_all_unions returns
WithoutUnions(text) == Append(text, "unions_removed")
\* header_text_filters.filter_oneline_typedefs
filter_oneline_typedefs(text) == Append(text, "oneline_typedefs_removed")

Call(fn, text) == [fn |-> fn, text |-> text]

(***************************************************************************)
(* get_types_info_from_text(file, content, output), one action per         *)
(* statement.  A header holds definitions of one kind: an extractor finds  *)
(* something only when the extractors before it found nothing.             *)
(***************************************************************************)
Init ==
    /\ pc = "use_filters"
    /\ output \in Outputs
    /\ content = RawText
    /\ unions_content = RawText
    /\ calls = <<>>
    /\ file_structs = <<>> /\ structs = <<>> /\ struct_warnings = <<>>
    /\ file_unions = <<>> /\ unions = <<>> /\ union_warnings = <<>>
    /\ file_enums = <<>> /\ enums = <<>>
    /\ file_typedefs = <<>> /\ to_parse = <<>> /\ typedefs = <<>>
    /\ decls = <<>> /\ parsed_functions = <<>> /\ func_warnings = <<>>
    /\ param_calls = <<>> /\ functions = <<>>

\* content = use_filters(content); unions_content = content
UseFilters ==
    /\ pc = "use_filters"
    /\ content' = use_filters(content)
    /\ unions_content' = use_filters(content)
    /\ pc' = "parse_all_structs"
    /\ UNCHANGED <<output, calls, file_structs, structs, struct_warnings,
                   file_unions, unions, union_warnings, file_enums, enums,
                   file_typedefs, to_parse, typedefs, decls, parsed_functions,
                   func_warnings, param_calls, functions>>

\* structs, content = parse_all_structs(content, file)
ParseAllStructs ==
    /\ pc = "parse_all_structs"
    /\ \E ss \in SeqsUpTo(Blocks, MaxDefs) :
        LET r == parse_all_structs(ss)
        IN  /\ file_structs' = ss
            /\ structs' = r.defs
            /\ struct_warnings' = r.warnings
    /\ calls' = Append(calls, Call("get_all_structs", content))
    /\ content' = WithoutStructs(content)
    /\ pc' = "parse_all_unions"
    /\ UNCHANGED <<output, unions_content, file_unions, unions, union_warnings,
                   file_enums, enums, file_typedefs, to_parse, typedefs, decls,
                   parsed_functions, func_warnings, param_calls, functions>>

\* parse_all_unions called with content, the text without structs
UnionsInput_after_structs == content

\* the text parse_all_unions is called with
UnionsInput == unions_content

\* unions, unions_content = parse_all_unions(unions_content, file)
ParseAllUnions ==
    /\ pc = "parse_all_unions"
    /\ \E us \in IF file_structs = <<>> THEN SeqsUpTo(Blocks, MaxDefs) ELSE {<<>>} :
        LET r == parse_all_unions(us)
        IN  /\ file_unions' = us
            /\ unions' = r.defs
            /\ union_warnings' = r.warnings
    /\ calls' = Append(calls, Call("get_all_unions", UnionsInput))
    /\ unions_content' = WithoutUnions(UnionsInput)
    /\ pc' = "parse_all_enums"
    /\ UNCHANGED <<output, content, file_structs, structs, struct_warnings,
                   file_enums, enums, file_typedefs, to_parse, typedefs, decls,
                   parsed_functions, func_warnings, param_calls, functions>>

\* enums = parse_all_enums(content, file)
ParseAllEnums ==
    /\ pc = "parse_all_enums"
    /\ \E es \in IF file_structs = <<>> /\ file_unions = <<>>
                 THEN SeqsUpTo(EnumBlocks, MaxDefs) ELSE {<<>>} :
        /\ file_enums' = es
        /\ enums' = parse_all_enums(es)
    /\ calls' = Append(calls, Call("get_all_enums", content))
    /\ pc' = "parse_typedefs"
    /\ UNCHANGED <<output, content, unions_content, file_structs, structs,
                   struct_warnings, file_unions, unions, union_warnings,
                   file_typedefs, to_parse, typedefs, decls, parsed_functions,
                   func_warnings, param_calls, functions>>

\* typedefs = parse_typedefs(content)
ParseTypedefs ==
    /\ pc = "parse_typedefs"
    /\ \E tds \in IF file_structs = <<>> /\ file_unions = <<>> /\ file_enums = <<>>
                  THEN SeqsUpTo(Typedefs, MaxTypedefs) ELSE {<<>>} :
        /\ file_typedefs' = tds
        /\ to_parse' = ToParse(tds, 1)
        /\ typedefs' = parse_typedefs(tds)
    /\ calls' = Append(calls, Call("get_typedefs", content))
    /\ pc' = "filter_oneline_typedefs"
    /\ UNCHANGED <<output, content, unions_content, file_structs, structs,
                   struct_warnings, file_unions, unions, union_warnings,
                   file_enums, enums, decls, parsed_functions, func_warnings,
                   param_calls, functions>>

\* content = filter_oneline_typedefs(content)
FilterOnelineTypedefs ==
    /\ pc = "filter_oneline_typedefs"
    /\ calls' = Append(calls, Call("filter_oneline_typedefs", content))
    /\ content' = filter_oneline_typedefs(content)
    /\ pc' = "parse_all_functions"
    /\ UNCHANGED <<output, unions_content, file_structs, structs, struct_warnings,
                   file_unions, unions, union_warnings, file_enums, enums,
                   file_typedefs, to_parse, typedefs, decls, parsed_functions,
                   func_warnings, param_calls, functions>>

\* functions = parse_all_functions(content, output, file)
ParseAllFunctions ==
    /\ pc = "parse_all_functions"
    /\ \E ds \in IF /\ file_structs = <<>> /\ file_unions = <<>>
                    /\ file_enums = <<>> /\ file_typedefs = <<>>
                 THEN SeqsUpTo(Declarations, MaxDecls) ELSE {<<>>} :
        LET r == parse_all_functions(ds, output)
        IN  /\ decls' = ds
            /\ parsed_functions' = r.functions
            /\ functions' = r.functions
            /\ func_warnings' = r.warnings
            /\ param_calls' = r.param_calls
    /\ calls' = Append(calls, Call("get_declarations", content))
    /\ pc' = "remove_unwanted_functions"
    /\ UNCHANGED <<output, content, unions_content, file_structs, structs,
                   struct_warnings, file_unions, unions, union_warnings,
                   file_enums, enums, file_typedefs, to_parse, typedefs>>

\* functions = remove_unwanted_functions(functions); return ...
RemoveUnwantedFunctions ==
    /\ pc = "remove_unwanted_functions"
    /\ functions' = remove_unwanted_functions(functions)
    /\ calls' = Append(calls, Call("remove_unwanted_functions", <<>>))
    /\ pc' = "done"
    /\ UNCHANGED <<output, content, unions_content, file_structs, structs,
                   struct_warnings, file_unions, unions, union_warnings,
                   file_enums, enums, file_typedefs, to_parse, typedefs, decls,
                   parsed_functions, func_warnings, param_calls>>

Next ==
    \/ UseFilters
    \/ ParseAllStructs
    \/ ParseAllUnions
    \/ ParseAllEnums
    \/ ParseTypedefs
    \/ FilterOnelineTypedefs
    \/ ParseAllFunctions
    \/ RemoveUnwantedFunctions

Spec == Init /\ [][Next]_vars

(***************************************************************************)
(* Properties.  They are stated on the lists the extractors returned and   *)
(* on the results, with the vocabulary below, which does not use the       *)
(* operators of the routines it is about.                                  *)
(***************************************************************************)
Range(f) == {f[i] : i \in DOMAIN f}

RemoveAt(seq, i) == SubSeq(seq, 1, i - 1) \o SubSeq(seq, i + 1, Len(seq))

IsPrefix(a, b) == Len(a) <= Len(b) /\ SubSeq(b, 1, Len(a)) = a

\* parse_all_functions has returned
FunctionsParsed == pc \in {"remove_unwanted_functions", "done"}

\* the declaration text has more than 10 '(' or as many '(' as ')' it has not
BadParens(text) ==
    \/ Count(text, "(") > 10
    \/ Count(text, "(") # Count(text, ")")

\* the name parsed from a candidate declaration
NameOf(raw) == parse_func_declaration(Strip(raw)).name

\* the candidate passes the parenthesis guard and has a parsed name
Accepted(raw) == ~BadParens(Strip(raw)) /\ NameOf(raw) # None

\* word occurs in text with no word character next to it
ContainsWholeWord(text, word) ==
    \E i \in 1..Len(text) :
        /\ OccursAt(text, word, i)
        /\ i = 1 \/ ~IsWord(text[i - 1])
        /\ i + Len(word) - 1 = Len(text) \/ ~IsWord(text[i + Len(word)])

\* the return type or a parameter type names a T type as a whole word
HasTType(f) ==
    LET types == {f.ret_type} \cup {p.type_text : p \in Range(f.params)}
    IN  \E t \in TTypes : \E type \in types : ContainsWholeWord(type, t)

\* the text is one line that starts with an uppercase letter and holds the
\* word 'the': the texts [A-Z].*\bthe\b.* matches as a whole
IsSentence(text) ==
    /\ Len(text) >= 1
    /\ text[1] \in Upper
    /\ "\n" \notin Range(text)
    /\ ContainsWholeWord(text, The)

\* C1: a candidate declaration with more than 10 '(' or with unequal counts of
\* '(' and ')' gives no FuncInfo: no stored record and no warning carries its
\* text, and the functions, the warnings and the parameter texts parsed are
\* those of the list without it (so it does not occupy its name).
C1_BadParensRejected ==
    FunctionsParsed =>
        \A i \in 1..Len(decls) :
            BadParens(Strip(decls[i])) =>
                /\ \A n \in DOMAIN parsed_functions :
                        parsed_functions[n].decl # Strip(decls[i])
                /\ \A w \in Range(func_warnings) :
                        w.dup.decl # Strip(decls[i]) /\ w.first.decl # Strip(decls[i])
                /\ parse_all_functions(RemoveAt(decls, i), output) =
                        [functions |-> parsed_functions, warnings |-> func_warnings,
                         param_calls |-> param_calls]

\* a declaration with 11 balanced '(' is followed by a well-formed one of the
\* same name, which is stored without a warning
C1_Witness ==
    /\ pc = "done"
    /\ Len(decls) = 2
    /\ Count(Strip(decls[1]), "(") = 11
    /\ Count(Strip(decls[1]), ")") = 11
    /\ NameOf(decls[1]) = NameOf(decls[2])
    /\ NameOf(decls[2]) \in DOMAIN parsed_functions
    /\ parsed_functions[NameOf(decls[2])].decl = Strip(decls[2])
    /\ func_warnings = <<>>

\* C2: a function given to remove_unwanted_functions whose return type or a
\* parameter type holds a T type as a whole word is absent from the result;
\* one with no such type is removed only by the sentence rule.
C2_TTypesRemoved ==
    pc = "done" =>
        \A n \in DOMAIN parsed_functions :
            LET f == parsed_functions[n]
            IN  /\ HasTType(f) => n \notin DOMAIN functions
                /\ ~HasTType(f) /\ ~IsSentence(f.decl) =>
                        n \in DOMAIN functions /\ functions[n] = f

\* one function is removed for a T type, another, whose type only contains a
\* T type name inside a longer identifier, is kept
C2_Witness ==
    /\ pc = "done"
    /\ \E n \in DOMAIN parsed_functions :
        HasTType(parsed_functions[n]) /\ n \notin DOMAIN functions
    /\ \E n \in DOMAIN functions :
        \E i \in 1..Len(functions[n].params) :
            /\ functions[n].params[i].type_text = w_MYTCHAR
            /\ \E j \in 1..Len(w_MYTCHAR) : OccursAt(w_MYTCHAR, TCHAR, j)

\* C3: a function given to remove_unwanted_functions whose declaration text
\* matches [A-Z].*\bthe\b.* as a whole is absent from the result, whatever its
\* types are.
C3_SentencesRemoved ==
    pc = "done" =>
        \A n \in DOMAIN parsed_functions :
            IsSentence(parsed_functions[n].decl) => n \notin DOMAIN functions

\* a sentence with no T type was parsed as a function and removed
C3_Witness ==
    /\ pc = "done"
    /\ \E n \in DOMAIN parsed_functions :
        /\ IsSentence(parsed_functions[n].decl)
        /\ ~HasTType(parsed_functions[n])
        /\ n \notin DOMAIN functions

\* the name a struct or union block is stored under: its tag, or its typedef
\* alias when it has no tag
ResolvedName(block) ==
    IF block.name_text # None /\ block.name_text # <<>>
    THEN block.name_text
    ELSE block.type_name_text

HasName(block) == ResolvedName(block) # None /\ ResolvedName(block) # <<>>

\* first wins for the blocks of one extractor: one entry per resolved name,
\* holding the first block of that name, and one warning for every later one
FirstBlockWins(blocks, defs, warnings) ==
    LET named == {i \in 1..Len(blocks) : HasName(blocks[i])}
        of(n) == {i \in named : ResolvedName(blocks[i]) = n}
    IN  /\ DOMAIN defs = {ResolvedName(blocks[i]) : i \in named}
        /\ \A n \in DOMAIN defs :
            /\ defs[n].name_text = blocks[Min(of(n))].name_text
            /\ defs[n].type_name_text = blocks[Min(of(n))].type_name_text
            /\ defs[n].members_list = blocks[Min(of(n))].members_list
            /\ Cardinality({j \in 1..Len(warnings) : warnings[j].name = n})
                    = Cardinality(of(n)) - 1
        /\ Len(warnings) = Cardinality(named) - Cardinality(DOMAIN defs)

\* first wins for the accepted declarations
FirstDeclarationWins ==
    LET acc == {i \in 1..Len(decls) : Accepted(decls[i])}
        of(n) == {i \in acc : NameOf(decls[i]) = n}
    IN  /\ DOMAIN parsed_functions = {NameOf(decls[i]) : i \in acc}
        /\ \A n \in DOMAIN parsed_functions :
            /\ parsed_functions[n].decl = Strip(decls[Min(of(n))])
            /\ Cardinality({j \in 1..Len(func_warnings) : func_warnings[j].name = n})
                    = Cardinality(of(n)) - 1
        /\ Len(func_warnings) = Cardinality(acc) - Cardinality(DOMAIN parsed_functions)

BuiltFuncInfos ==
    Range(parsed_functions) \cup {w.dup : w \in Range(func_warnings)}

VarargParam == [name |-> <<"v","a","r","a","r","g">>, type_text |-> <<".",".",".">>]

\* the candidates that pass the parenthesis guard and have a parsed name, in
\* extraction order: param_calls holds one text for each
AcceptedDecls == SelectSeq(decls, Accepted)

\* the text handed to parse_func_parameters for the declaration text, acc
\* being the accepted declarations
HandedFor(decl, acc) ==
    param_calls[CHOOSE j \in 1..Len(acc) : Strip(acc[j]) = decl]

\* the parameters parsed for a declaration text: those parse_func_parameters
\* gave for the text handed to it, their names without underscores
ParsedParams(decl, acc) ==
    LET ps == parse_func_parameters(HandedFor(decl, acc))
    IN  [i \in 1..Len(ps) |->
            [name |-> SelectSeq(ps[i].name, LAMBDA c : c # "_"),
             type_text |-> ps[i].type_text]]

\* C5: a declaration whose parameter text ends with '...' gets varargs = true
\* in every output mode and, unless the mode is 'json', one Param 'vararg' of
\* type '...' after the parsed parameters; in mode 'json', and for a parameter
\* text that does not end with '...', the parameters are the parsed ones only
\* (and varargs = false for the latter).
C5_Varargs ==
    FunctionsParsed =>
        LET acc == AcceptedDecls
        IN  \A f \in BuiltFuncInfos :
            LET dots == EndsWith(parse_func_declaration(f.decl).params, Dots)
                parsed == ParsedParams(f.decl, acc)
            IN  /\ f.varargs = dots
                /\ f.params = IF dots /\ output # "json"
                              THEN parsed \o <<VarargParam>>
                              ELSE parsed

\* a variadic declaration with a parsed parameter, in a mode other than 'json'
C5_Witness ==
    /\ pc = "done"
    /\ output # "json"
    /\ \E f \in Range(parsed_functions) :
        /\ f.varargs
        /\ Len(f.params) = 2
        /\ f.params[1].type_text = w_int
        /\ f.params[2] = VarargParam

\* C6: a struct or union is stored under its tag name when that is not empty,
\* also when it has a typedef alias; under its alias only when the tag name is
\* empty; with both names empty it is not stored and logs nothing.
KeyedByTag(blocks, defs, warnings) ==
    /\ \A i \in 1..Len(blocks) :
        LET tag == blocks[i].name_text
            alias == blocks[i].type_name_text
            tagged == tag # None /\ tag # <<>>
            aliased == alias # None /\ alias # <<>>
        IN  /\ tagged => tag \in DOMAIN defs
            /\ ~tagged /\ aliased => alias \in DOMAIN defs
    /\ \A n \in DOMAIN defs :
        LET tag == defs[n].name_text
        IN  n = IF tag # None /\ tag # <<>> THEN tag ELSE defs[n].type_name_text
    /\ \A w \in Range(warnings) :
        LET tag == w.dup.name_text
        IN  w.name = IF tag # None /\ tag # <<>> THEN tag ELSE w.dup.type_name_text
    /\ Cardinality(DOMAIN defs) + Len(warnings) =
            Cardinality({i \in 1..Len(blocks) :
                \/ blocks[i].name_text \notin {None, <<>>}
                \/ blocks[i].type_name_text \notin {None, <<>>}})

C6_KeyedByTag ==
    pc = "done" =>
        /\ KeyedByTag(file_structs, structs, struct_warnings)
        /\ KeyedByTag(file_unions, unions, union_warnings)

\* a struct with a tag and an alias is stored under the tag only, and a struct
\* with neither is dropped without a warning
C6_Witness ==
    /\ pc = "done"
    /\ Len(file_structs) = 2
    /\ file_structs[1].name_text = <<"S">>
    /\ file_structs[1].type_name_text = <<"T">>
    /\ file_structs[2].name_text = <<>>
    /\ file_structs[2].type_name_text = <<>>
    /\ DOMAIN structs = {<<"S">>}
    /\ struct_warnings = <<>>

\* the first position from i on that is not white space, or 0
NextInk(s, i) ==
    LET ink == {j \in i..Len(s) : ~IsSpace(s[j])}
    IN  IF ink = {} THEN 0 ELSE Min(ink)

\* after the first k characters come white space and then '*', a word
\* character or '(*'
DeclaratorFollows(s, k) ==
    LET q == NextInk(s, k + 1)
    IN  /\ q > k + 1
        /\ \/ s[q] = "*"
           \/ IsWord(s[q])
           \/ s[q] = "(" /\ q < Len(s) /\ s[q + 1] = "*"

\* the shared base type: the longest leading sequence of words of the first
\* fragment that a declarator follows, empty when there is none
SharedBase(first) ==
    LET ks == {k \in 1..Len(first) :
                /\ \A i \in 1..k : IsWord(first[i]) \/ IsSpace(first[i])
                /\ DeclaratorFollows(first, k)}
    IN  IF ks = {} THEN <<>> ELSE SubSeq(first, 1, Max(ks))

\* the fragments a typedef contributes: the first as it is, every later one
\* after the shared base type and a space
Contribution(t_def) ==
    LET parts == split_params(t_def)
    IN  [i \in 1..Len(parts) |->
            IF i = 1 THEN parts[1]
            ELSE SharedBase(parts[1]) \o <<" ">> \o parts[i]]

RECURSIVE Contributions(_)
Contributions(tds) ==
    IF tds = <<>> THEN <<>>
    ELSE Contribution(Head(tds)) \o Contributions(Tail(tds))

\* parse_typedefs has built to_parse
TypedefsParsed ==
    pc \in {"filter_oneline_typedefs", "parse_all_functions",
            "remove_unwanted_functions", "done"}

FilteredText == <<"raw", "use_filters">>
StructStrippedText == <<"raw", "use_filters", "structs_removed">>
FunctionText ==
    <<"raw", "use_filters", "structs_removed", "oneline_typedefs_removed">>

\* C8: the union extractor gets the normalized text as it was before struct
\* removal, the enum and typedef extractors the struct-stripped text, the
\* function extractor the struct-stripped text after one-line-typedef removal;
\* the function filter runs last, on the map parse_all_functions returned; the
\* text union extraction returns is the input of no stage.
C8_StageInputs ==
    /\ \A c \in Range(calls) : "unions_removed" \notin Range(c.text)
    /\ pc = "done" =>
        /\ calls = << [fn |-> "get_all_structs", text |-> FilteredText],
                      [fn |-> "get_all_unions", text |-> FilteredText],
                      [fn |-> "get_all_enums", text |-> StructStrippedText],
                      [fn |-> "get_typedefs", text |-> StructStrippedText],
                      [fn |-> "filter_oneline_typedefs", text |-> StructStrippedText],
                      [fn |-> "get_declarations", text |-> FunctionText],
                      [fn |-> "remove_unwanted_functions", text |-> <<>>] >>
        /\ DOMAIN functions \subseteq DOMAIN parsed_functions
        /\ \A n \in DOMAIN functions : functions[n] = parsed_functions[n]

\* a run in which unions were found, ended
C8_Witness ==
    /\ pc = "done"
    /\ file_unions # <<>>
    /\ unions_content = <<"raw", "use_filters", "unions_removed">>
    /\ content = FunctionText
    /\ Len(calls) = 7

\* C9: when the parameter text ends with '...', the text handed to
\* parse_func_parameters is the parameter text cut before the marker: a prefix
\* of it that holds no character of the trailing '...', also when the
\* parameter text is '...' alone.
C9_MarkerStripped ==
    FunctionsParsed =>
        /\ Len(param_calls) = Len(AcceptedDecls)
        /\ \A j \in 1..Len(param_calls) :
            LET p == parse_func_declaration(Strip(AcceptedDecls[j])).params
            IN  EndsWith(p, Dots) =>
                    /\ IsPrefix(param_calls[j], p)
                    /\ Len(param_calls[j]) + Len(Dots) <= Len(p)

\* the function is removed by the T-type rule or by the sentence rule
Unwanted(f) == IsSentence(f.decl) \/ HasTType(f)

\* the FuncInfo of a candidate declaration extracted alone
AloneInfo(raw) == parse_all_functions(<<raw>>, output).functions[NameOf(raw)]

\* C10: the final function map holds a name only if the first accepted
\* declaration of that name is wanted: when that one is removed, no later
\* declaration of the name takes its place.
C10_FirstDecides ==
    pc = "done" =>
        \A i \in 1..Len(decls) :
            /\ Accepted(decls[i])
            /\ \A j \in 1..(i - 1) :
                    Accepted(decls[j]) => NameOf(decls[j]) # NameOf(decls[i])
            /\ Unwanted(AloneInfo(decls[i]))
            => NameOf(decls[i]) \notin DOMAIN functions

\* the first declaration of a name is unwanted, the second is wanted, and the
\* name is not in the result
C10_Witness ==
    /\ pc = "done"
    /\ Len(decls) = 2
    /\ Accepted(decls[1]) /\ Accepted(decls[2])
    /\ NameOf(decls[1]) = NameOf(decls[2])
    /\ Unwanted(AloneInfo(decls[1]))
    /\ ~Unwanted(AloneInfo(decls[2]))
    /\ NameOf(decls[1]) \notin DOMAIN functions

====
